---------------------------- MODULE Spec2Model ----------------------------
(***************************************************************************)
(* Model of the RFID reader monitor (rfid_reader_test.py) and of the      *)
(* Turkish ID validator (test_turkish_id.py).                             *)
(*                                                                         *)
(* Bytes are numbers 0..255, characters are Unicode code points, strings   *)
(* are sequences of code points, Python ints are arbitrary-precision and   *)
(* are kept as base-10000 limbs, least significant first.                  *)
(***************************************************************************)
EXTENDS Integers, Sequences, FiniteSets, TLC

(***************************************************************************)
(* Generic sequence helpers                                                *)
(***************************************************************************)
Reverse(s) == [i \in 1..Len(s) |-> s[Len(s) + 1 - i]]

RECURSIVE Repeat(_, _)
Repeat(s, n) == IF n = 0 THEN <<>> ELSE s \o Repeat(s, n - 1)

RECURSIVE SumSeq(_)
SumSeq(s) == IF s = <<>> THEN 0 ELSE Head(s) + SumSeq(Tail(s))

(***************************************************************************)
(* Python str predicates on the code points the model uses: Latin-1        *)
(* (U+0000..U+00FF), the upper-case images U+0178 and U+039C, and the      *)
(* ligature U+FB00.                                                        *)
(***************************************************************************)
AsciiDigits == 48..57
AsciiUpper == 65..90
AsciiLower == 97..122
UpperHexLetters == 65..70

\* str.isspace
IsSpace(c) == c \in (9..13) \cup (28..32) \cup {133, 160}

\* str.isdecimal: only these can be given to int()
IsDecimal(c) == c \in AsciiDigits

\* str.isdigit: decimal digits and the superscript digits U+00B2, U+00B3, U+00B9
IsDigitChar(c) == c \in AsciiDigits \cup {178, 179, 185}

\* str.isalpha
IsAlphaChar(c) ==
    c \in AsciiUpper \cup AsciiLower \cup {170, 181, 186} \cup (192..214)
          \cup (216..246) \cup (248..255) \cup {376, 924, 64256}

\* str.isalnum: alphabetic, decimal, digit or numeric (U+00BC..U+00BE are numeric)
IsAlnumChar(c) == IsAlphaChar(c) \/ IsDigitChar(c) \/ c \in 188..190

\* str.isdigit / str.isalnum on a whole string: false on the empty string
isdigit(s) == s # <<>> /\ \A i \in 1..Len(s) : IsDigitChar(s[i])
isalnum(s) == s # <<>> /\ \A i \in 1..Len(s) : IsAlnumChar(s[i])

\* str.upper of one character: a string, since some characters grow
UpperChar(c) ==
    CASE c \in AsciiLower -> <<c - 32>>
      [] c \in (224..246) \cup (248..254) -> <<c - 32>>
      [] c = 181 -> <<924>>
      [] c = 223 -> <<83, 83>>
      [] c = 255 -> <<376>>
      [] c = 64256 -> <<70, 70>>
      [] OTHER -> <<c>>

\* str.upper: every character replaced by its upper-case string (of one or
\* two characters), in order
upper(s) ==
    LET slots == [i \in 1..(2 * Len(s)) |->
                     LET u == UpperChar(s[(i + 1) \div 2])
                     IN IF i % 2 = 1 THEN u[1]
                        ELSE IF Len(u) = 2 THEN u[2] ELSE -1]
    IN SelectSeq(slots, LAMBDA c : c # -1)

\* str.strip(): drop leading and trailing whitespace
lstrip(s) ==
    LET kept == {i \in 1..Len(s) : ~IsSpace(s[i])}
    IN IF kept = {} THEN <<>>
       ELSE SubSeq(s, CHOOSE i \in kept : \A j \in kept : i <= j, Len(s))

strip(s) == Reverse(lstrip(Reverse(lstrip(s))))

\* str.replace(ch, ''): drop every occurrence of one character
remove(s, ch) == SelectSeq(s, LAMBDA c : c # ch)

(***************************************************************************)
(* bytes.decode('utf-8', errors='ignore') for one-, two- and three-byte    *)
(* forms; lead bytes F0..F4 (four-byte forms) are outside the byte         *)
(* alphabet of the model.  A byte that is not a continuation byte always   *)
(* begins a new attempt, so whether a character starts at a byte can be    *)
(* told from that byte and the two after it; every other byte is dropped.  *)
(***************************************************************************)
IsCont(b) == b \in 128..191

SecondOk(lead, b) ==
    CASE lead = 224 -> b \in 160..191
      [] lead = 237 -> b \in 128..159
      [] OTHER -> IsCont(b)

\* the code point of the character that starts at byte i, or -1 if none does
CodeAt(bs, i) ==
    LET b == bs[i]
    IN CASE b < 128 -> b
         [] b \in 194..223 ->
               IF i + 1 <= Len(bs) /\ IsCont(bs[i + 1])
               THEN (b - 192) * 64 + (bs[i + 1] - 128)
               ELSE -1
         [] b \in 224..239 ->
               IF /\ i + 2 <= Len(bs)
                  /\ SecondOk(b, bs[i + 1])
                  /\ IsCont(bs[i + 2])
               THEN (b - 224) * 4096 + (bs[i + 1] - 128) * 64 + (bs[i + 2] - 128)
               ELSE -1
         [] b \in (128..193) \cup (245..255) -> -1

decode(bs) == SelectSeq([i \in 1..Len(bs) |-> CodeAt(bs, i)], LAMBDA c : c # -1)

(***************************************************************************)
(* Python int: arbitrary precision.  A non-negative int is kept as its     *)
(* base-10000 limbs, least significant first.                              *)
(***************************************************************************)
BigZero == <<0>>

\* n * m + a for a multiplier m <= 65536 and an addend a < m
RECURSIVE BigMulAdd(_, _, _)
BigMulAdd(n, m, a) ==
    IF n = <<>>
    THEN IF a = 0 THEN <<>> ELSE <<a % 10000>> \o BigMulAdd(<<>>, m, a \div 10000)
    ELSE LET t == Head(n) * m + a
         IN <<t % 10000>> \o BigMulAdd(Tail(n), m, t \div 10000)

\* str(n) for a non-negative int: decimal digits, most significant first,
\* no leading zero
BigStr(n) ==
    LET padded == [i \in 1..(4 * Len(n)) |->
                      LET limb == n[Len(n) - ((i - 1) \div 4)]
                      IN CASE (i - 1) % 4 = 0 -> limb \div 1000
                           [] (i - 1) % 4 = 1 -> (limb \div 100) % 10
                           [] (i - 1) % 4 = 2 -> (limb \div 10) % 10
                           [] OTHER -> limb % 10]
        nonzero == {i \in 1..Len(padded) : padded[i] # 0}
        first == IF nonzero = {} THEN Len(padded)
                 ELSE CHOOSE i \in nonzero : \A j \in nonzero : i <= j
    IN [i \in 1..(Len(padded) + 1 - first) |-> 48 + padded[first + i - 1]]

\* value of one base-16 digit character as int(s, 16) reads it
HexVal(c) ==
    CASE c \in AsciiDigits -> c - 48
      [] c \in 65..70 -> c - 55
      [] c \in 97..102 -> c - 87

IsHexDigitChar(c) == c \in AsciiDigits \cup (65..70) \cup (97..102)

\* value of at most four base-16 digits
SmallHex(s) ==
    CASE Len(s) = 1 -> HexVal(s[1])
      [] Len(s) = 2 -> HexVal(s[1]) * 16 + HexVal(s[2])
      [] Len(s) = 3 -> (HexVal(s[1]) * 16 + HexVal(s[2])) * 16 + HexVal(s[3])
      [] Len(s) = 4 ->
            ((HexVal(s[1]) * 16 + HexVal(s[2])) * 16 + HexVal(s[3])) * 16 + HexVal(s[4])

\* int(s, 16) of a non-empty string of base-16 digits, four digits at a time
RECURSIVE ParseHex(_)
ParseHex(s) ==
    IF Len(s) <= 4 THEN BigMulAdd(BigZero, 1, SmallHex(s))
    ELSE BigMulAdd(ParseHex(SubSeq(s, 1, Len(s) - 4)), 65536,
                   SmallHex(SubSeq(s, Len(s) - 3, Len(s))))

(***************************************************************************)
(* CardInfo (rfid_reader_test.py)                                          *)
(***************************************************************************)
TurkishIdCard == "Turkish ID Card (TC Kimlik)"
StandardRfidCard == "Standard RFID Card"
LongFormatRfidCard == "Long Format RFID Card"
HexadecimalRfidCard == "Hexadecimal RFID Card"
UnknownCardType == "Unknown Card Type"

CardTypes ==
    {TurkishIdCard, StandardRfidCard, LongFormatRfidCard, HexadecimalRfidCard,
     UnknownCardType}

\* the card types t with "RFID" in t
RfidCardTypes == {StandardRfidCard, LongFormatRfidCard, HexadecimalRfidCard}

\* A ValueError raised out of a function, in place of its result
ValueError == [exception |-> "ValueError"]

\* "Invalid hex format" and "Conversion error" as strings of code points
InvalidHexFormat ==
    <<73, 110, 118, 97, 108, 105, 100, 32, 104, 101, 120, 32, 102, 111, 114, 109, 97, 116>>
ConversionError ==
    <<67, 111, 110, 118, 101, 114, 115, 105, 111, 110, 32, 101, 114, 114, 111, 114>>

\* re.match(r'^[0-9A-F]+$', data): $ also matches before one final newline
HexPatternMatches(data) ==
    LET body == IF data # <<>> /\ data[Len(data)] = 10
                THEN SubSeq(data, 1, Len(data) - 1)
                ELSE data
    IN body # <<>> /\ \A i \in 1..Len(body) : body[i] \in AsciiDigits \cup UpperHexLetters

_detect_card_type(raw_data) ==
    LET data == upper(raw_data)
    IN IF Len(data) = 11 /\ isdigit(data) THEN TurkishIdCard
       ELSE IF Len(data) = 10 /\ isalnum(data) THEN StandardRfidCard
       ELSE IF Len(data) >= 16 /\ isdigit(data) THEN LongFormatRfidCard
       ELSE IF HexPatternMatches(data) /\ Len(data) >= 8 THEN HexadecimalRfidCard
       ELSE UnknownCardType

\* range(start, stop, step) as the sequence of its values, step > 0
RECURSIVE PyRange(_, _, _)
PyRange(start, stop, step) ==
    IF start >= stop THEN <<>> ELSE <<start>> \o PyRange(start + step, stop, step)

\* the remainder that truncates toward zero: negative for a negative a
TruncMod(a, b) == IF a >= 0 THEN a % b ELSE 0 - ((0 - a) % b)

\* Python's a % b for b > 0: the result is never negative
PyMod(a, b) == a % b

\* sum(digits[i] for i in r), digits indexed from 0
SumAt(digits, r) == SumSeq([k \in 1..Len(r) |-> digits[r[k] + 1]])

odd_sum(digits) == SumAt(digits, PyRange(0, 9, 2))
even_sum(digits) == SumAt(digits, PyRange(1, 8, 2))
digit_10(digits) == PyMod(odd_sum(digits) * 7 - even_sum(digits), 10)
first_10_sum(digits) == SumSeq(SubSeq(digits, 1, 10))
digit_11(digits) == PyMod(first_10_sum(digits), 10)

_parse_turkish_id(data) ==
    IF Len(data) # 11 \/ ~isdigit(data)
    THEN [error |-> "Invalid Turkish ID format"]
    ELSE IF \E i \in 1..Len(data) : ~IsDecimal(data[i])
    THEN ValueError
    ELSE LET digits == [i \in 1..Len(data) |-> data[i] - 48]
             is_valid == digits[10] = digit_10(digits) /\ digits[11] = digit_11(digits)
         IN [turkish_id |->
                [full_number |-> data,
                 is_valid |-> is_valid,
                 check_digit_10 |-> digit_10(digits),
                 check_digit_11 |-> digit_11(digits),
                 actual_digit_10 |-> digits[10],
                 actual_digit_11 |-> digits[11],
                 validation_passed |-> is_valid]]

_parse_rfid_card(data, hex_data) ==
    [rfid_data |->
        [card_number |-> data,
         numeric_only |-> SelectSeq(data, IsDigitChar),
         alpha_numeric |-> SelectSeq(data, IsAlnumChar),
         hex_representation |-> hex_data,
         format |-> IF Len(data) < 8 THEN <<"Unknown">>
                    ELSE IF Len(data) = 10 THEN <<"Standard 10-digit">>
                    ELSE IF Len(data) = 16 THEN <<"Extended 16-digit">>
                    ELSE IF Len(data) = 8 THEN <<"Short 8-digit">>
                    ELSE <<"Custom", Len(data), "-digit">>]]

_parse_card_data(raw_data, hex_data, card_type) ==
    LET data == upper(raw_data)
    IN IF card_type = TurkishIdCard THEN _parse_turkish_id(data)
       ELSE IF card_type \in RfidCardTypes THEN _parse_rfid_card(data, hex_data)
       ELSE [none |-> TRUE]

\* CardInfo(raw_data, hex_data): the object, or the exception __init__ raises
CardInfo(raw_data, hex_data) ==
    LET card_type == _detect_card_type(raw_data)
        parsed == _parse_card_data(raw_data, hex_data, card_type)
    IN IF parsed = ValueError THEN ValueError
       ELSE [raw_data |-> raw_data, hex_data |-> hex_data,
             card_type |-> card_type, parsed_data |-> parsed]

\* the two characters of a byte with the low half first
LowHalfFirst(b) ==
    <<IF b % 16 < 10 THEN 48 + (b % 16) ELSE 55 + (b % 16),
      IF b \div 16 < 10 THEN 48 + (b \div 16) ELSE 55 + (b \div 16)>>

\* a hexadecimal character with lower-case letters
LowerHexChar(v) == IF v < 10 THEN 48 + v ELSE 87 + v

\* f'{b:02X}': two upper-case hexadecimal characters
HexChar(v) == IF v < 10 THEN 48 + v ELSE 55 + v
Format02X(b) == <<HexChar(b \div 16), HexChar(b % 16)>>

\* ' '.join([f'{b:02X}' for b in data]): character i of the result
hex_dump(data) ==
    [i \in 1..(IF data = <<>> THEN 0 ELSE 3 * Len(data) - 1) |->
        IF i % 3 = 0 THEN 32 ELSE Format02X(data[(i + 2) \div 3])[i % 3]]

\* int(s, 16) for the strings that reach it: surrounding whitespace is
\* dropped, then every character must be a base-16 digit
PyIntHex(s) ==
    LET t == strip(s)
    IN IF t # <<>> /\ \A i \in 1..Len(t) : IsHexDigitChar(t[i])
       THEN [int |-> ParseHex(t)]
       ELSE ValueError

_get_decimal_data(card) ==
    IF card.card_type = HexadecimalRfidCard
    THEN LET decimal_number == PyIntHex(card.raw_data)
         IN IF decimal_number = ValueError THEN ConversionError
            ELSE BigStr(decimal_number.int)
    ELSE LET hex_chars == remove(card.hex_data, 32)
         IN IF Len(hex_chars) % 2 = 0
            THEN LET decimal_number == PyIntHex(hex_chars)
                 IN IF decimal_number = ValueError THEN ConversionError
                    ELSE BigStr(decimal_number.int)
            ELSE InvalidHexFormat

\* the text process_card_data keeps of a capture (lines 509 and 512)
CleanedText(data) == remove(remove(remove(strip(decode(data)), 13), 10), 0)

\* process_card_data(data): None, a CardInfo, or the exception it lets through
None == [none |-> TRUE]

\* a process_card_data that filters on the number of bytes
ByteCountFilter(data) ==
    IF Len(data) < 8 THEN None
    ELSE CardInfo(CleanedText(data), hex_dump(data))

process_card_data(data) ==
    IF data = <<>> THEN None
    ELSE LET rfid_data == CleanedText(data)
         IN IF Len(rfid_data) < 8 THEN None
            ELSE CardInfo(rfid_data, hex_dump(data))


(***************************************************************************)
(* validate_turkish_id (test_turkish_id.py)                                *)
(***************************************************************************)
\* ''.join([f'{ord(d):02X}' for d in tc_number])
hex_string(tc_number) ==
    [i \in 1..(2 * Len(tc_number)) |-> Format02X(tc_number[(i + 1) \div 2])[2 - (i % 2)]]

validate_turkish_id(tc_number) ==
    IF Len(tc_number) # 11 \/ ~isdigit(tc_number)
    THEN [valid |-> FALSE, error |-> "Turkish ID must be exactly 11 digits"]
    ELSE IF \E i \in 1..Len(tc_number) : ~IsDecimal(tc_number[i])
    THEN ValueError
    ELSE LET digits == [i \in 1..Len(tc_number) |-> tc_number[i] - 48]
         IN IF digits[1] = 0
            THEN [valid |-> FALSE, error |-> "First digit cannot be 0"]
            ELSE LET odd == SumAt(digits, PyRange(0, 9, 2))
                     even == SumAt(digits, PyRange(1, 8, 2))
                     d10 == PyMod(odd * 7 - even, 10)
                     sum10 == SumSeq(SubSeq(digits, 1, 10))
                     d11 == PyMod(sum10, 10)
                 IN [valid |-> digits[10] = d10 /\ digits[11] = d11,
                     full_number |-> tc_number,
                     hex_data |-> hex_dump(tc_number),
                     decimal_data |-> BigStr(PyIntHex(hex_string(tc_number)).int),
                     check_digit_10 |-> d10,
                     check_digit_11 |-> d11,
                     actual_digit_10 |-> digits[10],
                     actual_digit_11 |-> digits[11],
                     odd_sum |-> odd,
                     even_sum |-> even,
                     first_10_sum |-> sum10]

(***************************************************************************)
(* EnhancedRFIDReader.monitor_rfid as a state machine                      *)
(***************************************************************************)
\* Bounds of the model
MaxPresentations == 2
MaxTime == 2
MaxDuration == 1

\* What the reader device sends for one card presentation
HexCard == <<67, 65, 66, 57, 69, 65, 70, 50>>
IdCardCrLf == <<49, 48, 48, 48, 48, 48, 48, 48, 49, 52, 54, 13, 10>>
SevenCr == <<49, 50, 51, 52, 53, 54, 55, 13>>
SuperscriptId == <<49, 50, 51, 52, 53, 54, 55, 56, 57, 48, 194, 178>>

Presentations == {HexCard, IdCardCrLf, SevenCr, SuperscriptId}

\* where a transmission gap may fall inside a presentation
SplitPoints == {1}

\* duration argument: <<>> is None, <<d>> is the number d
Durations == {<<>>, <<0>>, <<MaxDuration>>}

\* Python truth value of the duration argument
Truthy(duration) == duration # <<>> /\ duration[1] # 0

Bytes(b) == [bytes |-> b]

VARIABLES
    pc,                 \* control point of monitor_rfid
    duration,           \* the duration argument
    serial_connection,  \* None or [is_open |-> BOOLEAN]
    port_buffer,        \* bytes waiting in the port: in_waiting is its length
    in_flight,          \* rest of the presentation the device is sending
    presented,          \* presentations the device has started
    data,               \* result of read_complete_rfid / its accumulator
    card_info,          \* local of monitor_rfid
    read_count,
    last_card_info,
    console,            \* the "Read #n" blocks printed, in order
    accepted,           \* history: the CardInfo objects process_card_data returned
    start_time,
    now,                \* time.time()
    outcome,            \* how monitor_rfid left the loop
    opens,              \* history: successful opens of the port
    closes,             \* history: close() calls on the port
    read_attempted,     \* history: read_complete_rfid was called
    transport,          \* the device: "ok", "gone" or "streaming"
    read_result,        \* history: the read_complete_rfid call just made raised
    arg,                \* argument of a function applied on its own
    ret                 \* its result

monitor_vars ==
    <<pc, duration, serial_connection, port_buffer, in_flight, presented, data,
      card_info, read_count, last_card_info, console, accepted, start_time,
      now, outcome, opens, closes, read_attempted, transport, read_result>>

vars == <<monitor_vars, arg, ret>>

NotCalled == [not_called |-> TRUE]

\* EnhancedRFIDReader.__init__
InitReader ==
    /\ pc = "idle"
    /\ duration = <<>>
    /\ serial_connection = None
    /\ port_buffer = <<>>
    /\ in_flight = <<>>
    /\ presented = 0
    /\ data = None
    /\ card_info = None
    /\ read_count = 0
    /\ last_card_info = None
    /\ console = <<>>
    /\ accepted = <<>>
    /\ start_time = 0
    /\ now = 0
    /\ outcome = "none"
    /\ opens = 0
    /\ closes = 0
    /\ read_attempted = FALSE
    /\ transport = "ok"
    /\ read_result = "none"

Init ==
    /\ InitReader
    /\ arg = <<>>
    /\ ret = NotCalled

IsOpen == serial_connection # None /\ serial_connection.is_open

\* the control points inside the try block
TryPcs ==
    {"check", "read", "while", "chunk_sleep", "test", "accept", "count", "store",
     "print", "sleep"}

\* Bytes reach the port at any time, and are looked at only after the loop
\* head or the sleep of line 490; the clock is read only at lines 550 and 555,
\* so it is enough to advance it during the sleep of line 599
ArrivalPcs == {"check", "chunk_sleep"}
ClockPcs == {"sleep"}

\* monitor_rfid(duration=d) is called
Start ==
    /\ pc = "idle"
    /\ \E d \in Durations : duration' = d
    /\ pc' = "connect"
    /\ UNCHANGED <<serial_connection, port_buffer, in_flight, presented, data,
                 card_info, read_count, last_card_info, console, accepted,
                 start_time, now, outcome, opens, closes, read_attempted,
                 transport, read_result, arg, ret>>

\* connect() returns True
ConnectOk ==
    /\ pc = "connect"
    /\ serial_connection' = [is_open |-> TRUE]
    /\ opens' = opens + 1
    /\ pc' = "banner"
    /\ UNCHANGED <<duration, port_buffer, in_flight, presented, data, card_info,
                 read_count, last_card_info, console, accepted, start_time,
                 now, outcome, closes, read_attempted,
                 transport, read_result, arg, ret>>

\* lines 535-550: the banner is printed and start_time is taken
Banner ==
    /\ pc = "banner"
    /\ start_time' = now
    /\ pc' = "check"
    /\ UNCHANGED <<duration, serial_connection, port_buffer, in_flight, presented,
                 data, card_info, read_count, last_card_info, console,
                 accepted, now, outcome, opens, closes, read_attempted,
                 transport, read_result, arg, ret>>

\* a monitor_rfid that goes on into the loop after connect() returned False
ConnectFailGoesOn ==
    /\ pc = "connect"
    /\ outcome' = "connect_failed"
    /\ pc' = "banner"
    /\ UNCHANGED <<duration, serial_connection, port_buffer, in_flight, presented,
                 data, card_info, read_count, last_card_info, console,
                 accepted, start_time, now, opens, closes, read_attempted,
                 transport, read_result, arg, ret>>

\* connect() returns False: serial.Serial raised, or the port is not open
ConnectFail ==
    /\ pc = "connect"
    /\ \E made \in BOOLEAN :
          serial_connection' = IF made THEN [is_open |-> FALSE] ELSE serial_connection
    /\ outcome' = "connect_failed"
    /\ pc' = "done"
    /\ UNCHANGED <<duration, port_buffer, in_flight, presented, data, card_info,
                 read_count, last_card_info, console, accepted, start_time,
                 now, opens, closes, read_attempted,
                 transport, read_result, arg, ret>>

\* line 555: duration and (time.time() - start_time) > duration
DurationReached(d, elapsed) == Truthy(d) /\ elapsed > d[1]

\* lines 553-557: the loop head
CheckDuration ==
    /\ pc = "check"
    /\ IF DurationReached(duration, now - start_time)
       THEN outcome' = "duration" /\ pc' = "finally"
       ELSE outcome' = outcome /\ pc' = "read"
    /\ UNCHANGED <<duration, serial_connection, port_buffer, in_flight, presented,
                 data, card_info, read_count, last_card_info, console,
                 accepted, start_time, now, opens, closes, read_attempted,
                 transport, read_result, arg, ret>>

\* read_complete_rfid, lines 477-486: nothing waiting returns None
ReadBegin ==
    /\ pc = "read"
    /\ ~IsOpen \/ transport # "gone"
    /\ read_attempted' = TRUE
    /\ IF ~IsOpen \/ (Len(port_buffer) = 0 /\ transport # "streaming")
       THEN data' = None /\ pc' = "test"
       ELSE data' = Bytes(<<>>) /\ pc' = "while"
    /\ read_result' = "none"
    /\ UNCHANGED <<duration, serial_connection, port_buffer, in_flight, presented,
                 card_info, read_count, last_card_info, console, accepted,
                 start_time, now, outcome, opens, closes,
                 transport, arg, ret>>

\* lines 487-489: read everything that is waiting.  The bytes of a streaming
\* device are not kept: the call that reads them never returns them.
WhileRead ==
    /\ pc = "while"
    /\ transport # "gone"
    /\ Len(port_buffer) > 0 \/ transport = "streaming"
    /\ data' = Bytes(data.bytes \o port_buffer)
    /\ port_buffer' = <<>>
    /\ pc' = "chunk_sleep"
    /\ UNCHANGED <<duration, serial_connection, in_flight, presented, card_info,
                 read_count, last_card_info, console, accepted, start_time,
                 now, outcome, opens, closes, read_attempted,
                 transport, read_result, arg, ret>>

\* line 490: time.sleep(0.01)
ChunkSleep ==
    /\ pc = "chunk_sleep"
    /\ pc' = "while"
    /\ UNCHANGED <<duration, serial_connection, port_buffer, in_flight, presented,
                 data, card_info, read_count, last_card_info, console,
                 accepted, start_time, now, outcome, opens, closes,
                 read_attempted,
                 transport, read_result, arg, ret>>

\* lines 487 and 492: nothing more is waiting
WhileExit ==
    /\ pc = "while"
    /\ transport = "ok"
    /\ Len(port_buffer) = 0
    /\ data' = IF data.bytes # <<>> THEN data ELSE None
    /\ read_result' = "none"
    /\ pc' = "test"
    /\ UNCHANGED <<duration, serial_connection, port_buffer, in_flight, presented,
                 card_info, read_count, last_card_info, console, accepted,
                 start_time, now, outcome, opens, closes, read_attempted,
                 transport, arg, ret>>

\* a read_complete_rfid that returns the chunks it has read when read raises
ReadErrorKeepsChunks ==
    /\ pc \in {"read", "while"}
    /\ IsOpen
    /\ read_attempted' = TRUE
    /\ data' = IF pc = "while" /\ data.bytes # <<>> THEN data ELSE None
    /\ read_result' = IF pc = "while" /\ data.bytes # <<>>
                      THEN "error_after_chunk" ELSE "error"
    /\ pc' = "test"
    /\ UNCHANGED <<duration, serial_connection, port_buffer, in_flight, presented,
                 card_info, read_count, last_card_info, console, accepted,
                 start_time, now, outcome, opens, closes,
                 transport, arg, ret>>

\* lines 494-501: in_waiting or read raises, read_complete_rfid returns None
ReadError ==
    /\ pc \in {"read", "while"}
    /\ IsOpen
    /\ read_attempted' = TRUE
    /\ data' = None
    /\ read_result' = IF pc = "while" /\ data.bytes # <<>>
                      THEN "error_after_chunk" ELSE "error"
    /\ pc' = "test"
    /\ UNCHANGED <<duration, serial_connection, port_buffer, in_flight, presented,
                 card_info, read_count, last_card_info, console, accepted,
                 start_time, now, outcome, opens, closes,
                 transport, arg, ret>>

\* lines 562-563: if data: card_info = self.process_card_data(data)
TestData ==
    /\ pc = "test"
    /\ IF data = None
       THEN /\ pc' = "sleep"
            /\ UNCHANGED <<card_info, accepted, outcome>>
       ELSE LET c == process_card_data(data.bytes)
            IN IF c = ValueError
               THEN /\ outcome' = "error"
                    /\ pc' = "finally"
                    /\ UNCHANGED <<card_info, accepted>>
               ELSE /\ card_info' = c
                    /\ accepted' = IF c # None THEN Append(accepted, c) ELSE accepted
                    /\ pc' = "accept"
                    /\ outcome' = outcome
    /\ read_result' = "none"
    /\ UNCHANGED <<duration, serial_connection, port_buffer, in_flight, presented,
                 data, read_count, last_card_info, console, start_time, now,
                 opens, closes, read_attempted,
                 transport, arg, ret>>

\* line 565: if card_info:
ShouldReport(card, last) == card # None

\* line 565
Accept ==
    /\ pc = "accept"
    /\ pc' = IF ShouldReport(card_info, last_card_info) THEN "count" ELSE "sleep"
    /\ UNCHANGED <<duration, serial_connection, port_buffer, in_flight, presented,
                 data, card_info, read_count, last_card_info, console,
                 accepted, start_time, now, outcome, opens, closes,
                 read_attempted,
                 transport, read_result, arg, ret>>

\* line 566: self.read_count += 1
Count ==
    /\ pc = "count"
    /\ read_count' = read_count + 1
    /\ pc' = "store"
    /\ UNCHANGED <<duration, serial_connection, port_buffer, in_flight, presented,
                 data, card_info, last_card_info, console, accepted,
                 start_time, now, outcome, opens, closes, read_attempted,
                 transport, read_result, arg, ret>>

\* line 567: self.last_card_info = card_info
Store ==
    /\ pc = "store"
    /\ last_card_info' = card_info
    /\ pc' = "print"
    /\ UNCHANGED <<duration, serial_connection, port_buffer, in_flight, presented,
                 data, card_info, read_count, console, accepted, start_time,
                 now, outcome, opens, closes, read_attempted,
                 transport, read_result, arg, ret>>

\* lines 569-596: the block printed for one card
ReadBlock(n, card) ==
    [read_count |-> n, card_type |-> card.card_type, raw_data |-> card.raw_data,
     hex_data |-> card.hex_data, decimal |-> _get_decimal_data(card)]

\* lines 569-596: the record is printed (and typed)
PrintCard ==
    /\ pc = "print"
    /\ console' = Append(console, ReadBlock(read_count, card_info))
    /\ pc' = "sleep"
    /\ UNCHANGED <<duration, serial_connection, port_buffer, in_flight, presented,
                 data, card_info, read_count, last_card_info, accepted,
                 start_time, now, outcome, opens, closes, read_attempted,
                 transport, read_result, arg, ret>>

\* line 599: time.sleep(0.1)
Sleep ==
    /\ pc = "sleep"
    /\ pc' = "check"
    /\ UNCHANGED <<duration, serial_connection, port_buffer, in_flight, presented,
                 data, card_info, read_count, last_card_info, console,
                 accepted, start_time, now, outcome, opens, closes,
                 read_attempted,
                 transport, read_result, arg, ret>>

\* Ctrl+C: KeyboardInterrupt is raised wherever the try block is
Interrupt ==
    /\ pc \in TryPcs
    /\ outcome' = "cancel"
    /\ pc' = "except"
    /\ UNCHANGED <<duration, serial_connection, port_buffer, in_flight, presented,
                 data, card_info, read_count, last_card_info, console,
                 accepted, start_time, now, opens, closes, read_attempted,
                 transport, read_result, arg, ret>>

\* Ctrl+C outside the try block: no handler of monitor_rfid catches it.  In
\* connect() before the port is made (after it, the case is that of the
\* banner), while the banner is printed, and in the finally clause before
\* close() is called, KeyboardInterrupt leaves monitor_rfid at once; in the
\* except clause it leaves after the finally clause has run.
InterruptOutside ==
    /\ pc \in {"connect", "banner", "except", "finally"}
    /\ outcome' = "interrupt"
    /\ pc' = IF pc = "except" THEN "finally" ELSE "done"
    /\ UNCHANGED <<duration, serial_connection, port_buffer, in_flight, presented,
                 data, card_info, read_count, last_card_info, console,
                 accepted, start_time, now, opens, closes, read_attempted,
                 transport, read_result, arg, ret>>

\* lines 601-604: except KeyboardInterrupt
Except ==
    /\ pc = "except"
    /\ pc' = "finally"
    /\ UNCHANGED <<duration, serial_connection, port_buffer, in_flight, presented,
                 data, card_info, read_count, last_card_info, console,
                 accepted, start_time, now, outcome, opens, closes,
                 read_attempted,
                 transport, read_result, arg, ret>>

\* disconnect, lines 452-456
disconnect ==
    IF IsOpen
    THEN serial_connection' = [is_open |-> FALSE] /\ closes' = closes + 1
    ELSE UNCHANGED <<serial_connection, closes>>

\* lines 605-606: finally: self.disconnect()
Finally ==
    /\ pc = "finally"
    /\ disconnect
    /\ pc' = "done"
    /\ UNCHANGED <<duration, port_buffer, in_flight, presented, data, card_info,
                 read_count, last_card_info, console, accepted, start_time,
                 now, outcome, opens, read_attempted,
                 transport, read_result, arg, ret>>

\* the clock advances
Tick ==
    /\ pc \in ClockPcs
    /\ now < MaxTime
    /\ now' = now + 1
    /\ UNCHANGED <<pc, duration, serial_connection, port_buffer, in_flight,
                 presented, data, card_info, read_count, last_card_info,
                 console, accepted, start_time, outcome, opens, closes,
                 read_attempted,
                 transport, read_result, arg, ret>>

\* the device starts to send a presentation: a first part reaches the port
Arrive ==
    /\ IsOpen
    /\ transport = "ok"
    /\ pc \in ArrivalPcs
    /\ in_flight = <<>>
    /\ presented < MaxPresentations
    /\ \E p \in Presentations : \E k \in SplitPoints \cup {Len(p)} :
          /\ k <= Len(p)
          /\ port_buffer' = port_buffer \o SubSeq(p, 1, k)
          /\ in_flight' = SubSeq(p, k + 1, Len(p))
    /\ presented' = presented + 1
    /\ UNCHANGED <<pc, duration, serial_connection, data, card_info, read_count,
                 last_card_info, console, accepted, start_time, now,
                 outcome, opens, closes, read_attempted,
                 transport, read_result, arg, ret>>

\* the rest of the presentation reaches the port
ArriveRest ==
    /\ IsOpen
    /\ transport = "ok"
    /\ pc \in ArrivalPcs
    /\ in_flight # <<>>
    /\ port_buffer' = port_buffer \o in_flight
    /\ in_flight' = <<>>
    /\ UNCHANGED <<pc, duration, serial_connection, presented, data, card_info,
                 read_count, last_card_info, console, accepted, start_time,
                 now, outcome, opens, closes, read_attempted,
                 transport, read_result, arg, ret>>

\* The device is unplugged: from now on in_waiting and read raise.  But for
\* `transport`, what follows is a behaviour in which every read is a step of
\* ReadError, and ReadError is taken after any number of cards; so it is
\* enough to unplug a device at the loop head, before its first card.
Unplug ==
    /\ IsOpen
    /\ pc = "check"
    /\ presented = 0
    /\ transport = "ok"
    /\ transport' = "gone"
    /\ UNCHANGED <<pc, duration, serial_connection, port_buffer, in_flight,
                 presented, data, card_info, read_count, last_card_info,
                 console, accepted, start_time, now, outcome, opens, closes,
                 read_attempted, read_result, arg, ret>>

\* The device begins to send without pause: from now on in_waiting is never
\* 0.  The call of read_complete_rfid that meets it returns nothing read
\* before, so again it is enough to begin before the first card.
StartStream ==
    /\ IsOpen
    /\ pc = "check"
    /\ presented = 0
    /\ transport = "ok"
    /\ transport' = "streaming"
    /\ UNCHANGED <<pc, duration, serial_connection, port_buffer, in_flight,
                 presented, data, card_info, read_count, last_card_info,
                 console, accepted, start_time, now, outcome, opens, closes,
                 read_attempted, read_result, arg, ret>>

MonitorNext ==
    \/ Start
    \/ ConnectOk
    \/ ConnectFail
    \/ Banner
    \/ CheckDuration
    \/ ReadBegin
    \/ WhileRead
    \/ ChunkSleep
    \/ WhileExit
    \/ ReadError
    \/ TestData
    \/ Accept
    \/ Count
    \/ Store
    \/ PrintCard
    \/ Sleep
    \/ Interrupt
    \/ InterruptOutside
    \/ Except
    \/ Finally
    \/ Tick
    \/ Arrive
    \/ ArriveRest
    \/ Unplug
    \/ StartStream

Next == MonitorNext

Spec == Init /\ [][Next]_vars

\* a read of an unplugged device raises each time it is tried
ReadFails == transport = "gone" /\ ReadError

\* the steps monitor_rfid takes by itself
ProgramStep ==
    \/ Start
    \/ ConnectOk
    \/ ConnectFail
    \/ Banner
    \/ CheckDuration
    \/ ReadBegin
    \/ WhileRead
    \/ ChunkSleep
    \/ WhileExit
    \/ ReadFails
    \/ Accept
    \/ Count
    \/ Store
    \/ Sleep
    \/ Except
    \/ Finally

\* the steps of TestData and of PrintCard, told by the control points they
\* link: no other step of Next links them
TestDataTaken == pc = "test" /\ pc' \in {"sleep", "accept", "finally"}
PrintCardTaken == pc = "print" /\ pc' = "sleep"

\* the interpreter goes on running: monitor_rfid stops at no control point,
\* and time passes in the sleeps of line 599.  Nothing is asked of the device
\* or of the keyboard.
SpecLive ==
    /\ Init
    /\ [][Next]_vars
    /\ WF_vars(ProgramStep)
    /\ WF_pc(TestDataTaken)
    /\ WF_pc(PrintCardTaken)
    /\ SF_vars(Tick)

(***************************************************************************)
(* The functions applied on their own: Init draws one argument, an action  *)
(* applies one function to it.                                             *)
(***************************************************************************)
\* Bounds of the inputs
IdWindow == 2
MaxRun == 17
MaxEdge == 2

\* the numbers of test_turkish_id.py, and the two constant strings
IdBases ==
    {<<49, 50, 51, 52, 53, 54, 55, 56, 57, 48, 49>>,
     <<49, 50, 51, 52, 53, 54, 55, 56, 57, 49, 48>>,
     <<49, 48, 48, 48, 48, 48, 48, 48, 49, 52, 54>>,
     <<49, 49, 49, 49, 49, 49, 49, 49, 49, 49, 49>>,
     <<48, 48, 48, 48, 48, 48, 48, 48, 48, 48, 48>>,
     <<57, 57, 57, 57, 57, 57, 57, 57, 57, 57, 57>>}

\* base with the digits w written over it from position off + 1 on
Patch(base, off, w) ==
    [i \in 1..Len(base) |-> IF i > off /\ i <= off + Len(w) THEN w[i - off] ELSE base[i]]

IdInputs ==
    {Patch(b, off, w) : b \in IdBases, off \in 0..(11 - IdWindow),
                        w \in [1..IdWindow -> AsciiDigits]}
    \cup {<<49, 50, 51, 52, 53, 54, 55, 56, 57, 48>>,
          <<49, 50, 51, 52, 53, 54, 55, 56, 57, 48, 49, 50>>,
          <<49, 50, 51, 52, 53, 54, 55, 56, 57, 48, 178>>}

\* '1', 'A', 'a', 'G', '-', newline, superscript two, sharp s
SampleChars == {49, 65, 97, 71, 45, 10, 178, 223}

TextInputs ==
    {Repeat(<<c1>>, n1) \o Repeat(<<c2>>, n2) :
        c1 \in SampleChars, n1 \in 0..MaxRun, c2 \in SampleChars, n2 \in 0..1}

\* NUL, newline, space, '1', 'A', 'G', and a byte that is not UTF-8
SampleBytes == {0, 10, 32, 49, 65, 71, 255}

\* "GHIJKLM", "1234567", "ABCDEF1"
Middles ==
    {<<71, 72, 73, 74, 75, 76, 77>>,
     <<49, 50, 51, 52, 53, 54, 55>>,
     <<65, 66, 67, 68, 69, 70, 49>>}

SeqsUpTo(S, n) == UNION {[1..k -> S] : k \in 0..n}

\* the UTF-8 bytes of U+FB00 (the ligature ff) and "1234567"; "cab9eaf2";
\* NUL, space, "ABCDEF12", space, NUL
LigatureCapture == <<239, 172, 128, 49, 50, 51, 52, 53, 54, 55>>
LowerHexCapture == <<99, 97, 98, 57, 101, 97, 102, 50>>
PaddedCapture == <<0, 32, 65, 66, 67, 68, 69, 70, 49, 50, 32, 0>>

BytesInputs ==
    {pre \o mid \o post :
        pre \in SeqsUpTo(SampleBytes, 1), mid \in Middles,
        post \in SeqsUpTo(SampleBytes, MaxEdge)}
    \cup Presentations
    \cup {LigatureCapture, LowerHexCapture, PaddedCapture}

FnInputs ==
    {[kind |-> "id", value |-> v] : v \in IdInputs}
    \cup {[kind |-> "text", value |-> v] : v \in TextInputs}
    \cup {[kind |-> "bytes", value |-> v] : v \in BytesInputs}

InitFn ==
    /\ InitReader
    /\ arg \in FnInputs
    /\ ret = NotCalled

CallParseTurkishId ==
    /\ ret = NotCalled
    /\ arg.kind = "id"
    /\ ret' = [fn |-> "_parse_turkish_id", result |-> _parse_turkish_id(arg.value)]
    /\ UNCHANGED <<monitor_vars, arg>>

CallValidateTurkishId ==
    /\ ret = NotCalled
    /\ arg.kind = "id"
    /\ ret' = [fn |-> "validate_turkish_id", result |-> validate_turkish_id(arg.value)]
    /\ UNCHANGED <<monitor_vars, arg>>

CallDetectCardType ==
    /\ ret = NotCalled
    /\ arg.kind = "text"
    /\ ret' = [fn |-> "_detect_card_type", result |-> _detect_card_type(arg.value)]
    /\ UNCHANGED <<monitor_vars, arg>>

\* process_card_data, and _get_decimal_data of the CardInfo it returns
CallProcessCardData ==
    /\ ret = NotCalled
    /\ arg.kind = "bytes"
    /\ LET c == process_card_data(arg.value)
       IN ret' = [fn |-> "process_card_data", result |-> c,
                  decimal |-> IF c = None \/ c = ValueError THEN <<>>
                              ELSE _get_decimal_data(c)]
    /\ UNCHANGED <<monitor_vars, arg>>

FnNext ==
    \/ CallParseTurkishId
    \/ CallValidateTurkishId
    \/ CallDetectCardType
    \/ CallProcessCardData

SpecFn == InitFn /\ [][FnNext]_vars

(***************************************************************************)
(* Properties                                                              *)
(***************************************************************************)
Called(fn) == ret # NotCalled /\ ret.fn = fn

IsCardInfo(c) == c # None /\ c # ValueError

\* C1: whenever monitor_rfid has opened the port, the port has been closed
\* exactly once and is not open when monitor_rfid has ended.
C1_ClosedOnceAtEnd ==
    (pc = "done" /\ opens = 1) => (closes = 1 /\ ~IsOpen)

\* C2: for every string of 11 decimal digits, _parse_turkish_id reports
\* check10 = ((d0+d2+d4+d6+d8)*7 - (d1+d3+d5+d7)) mod 10, in 0..9 even when
\* the difference is negative, check11 = (d0+...+d9) mod 10, and
\* valid = (d9 = check10 and d10 = check11); 10000000146 is valid and
\* 12345678901, 12345678910 and 11111111111 are not.
IdDigits == [i \in 1..11 |-> arg.value[i] - 48]

IdDifference ==
    (IdDigits[1] + IdDigits[3] + IdDigits[5] + IdDigits[7] + IdDigits[9]) * 7
    - (IdDigits[2] + IdDigits[4] + IdDigits[6] + IdDigits[8])

IdFirstTen ==
    IdDigits[1] + IdDigits[2] + IdDigits[3] + IdDigits[4] + IdDigits[5]
    + IdDigits[6] + IdDigits[7] + IdDigits[8] + IdDigits[9] + IdDigits[10]

ElevenDecimalDigits(s) == Len(s) = 11 /\ \A i \in 1..11 : s[i] \in AsciiDigits

C2_CheckDigits ==
    (Called("_parse_turkish_id") /\ ElevenDecimalDigits(arg.value)) =>
        /\ "turkish_id" \in DOMAIN ret.result
        /\ LET t == ret.result.turkish_id
           IN /\ t.check_digit_10 \in 0..9
              /\ \E k \in -4..32 : IdDifference = 10 * k + t.check_digit_10
              /\ t.check_digit_11 \in 0..9
              /\ \E k \in 0..9 : IdFirstTen = 10 * k + t.check_digit_11
              /\ t.is_valid = (IdDigits[10] = t.check_digit_10
                               /\ IdDigits[11] = t.check_digit_11)
              /\ t.validation_passed = t.is_valid
              /\ (arg.value = <<49, 48, 48, 48, 48, 48, 48, 48, 49, 52, 54>> => t.is_valid)
              /\ (arg.value \in {<<49, 50, 51, 52, 53, 54, 55, 56, 57, 48, 49>>,
                                 <<49, 50, 51, 52, 53, 54, 55, 56, 57, 49, 48>>,
                                 <<49, 49, 49, 49, 49, 49, 49, 49, 49, 49, 49>>} => ~t.is_valid)

\* C2 witness: an ID whose difference is negative has been parsed
C2_NegativeDifferenceParsed ==
    /\ Called("_parse_turkish_id")
    /\ ElevenDecimalDigits(arg.value)
    /\ IdDifference < 0
    /\ ret.result.turkish_id.check_digit_10 \in 1..9

\* C3: _detect_card_type gives every text the variant of the ordered chain on
\* the upper-cased text: length 11 and all decimal digits, Turkish ID; length
\* 10 and all alphanumeric, Standard; length >= 16 and all decimal digits,
\* Long Format; length >= 8 and every character in 0-9A-F, Hexadecimal;
\* otherwise Unknown.
ChainVariant(text) ==
    LET u == upper(text)
        all_decimal == \A i \in 1..Len(u) : u[i] \in AsciiDigits
        all_alnum == \A i \in 1..Len(u) : IsAlnumChar(u[i])
        all_hex == \A i \in 1..Len(u) : u[i] \in AsciiDigits \cup UpperHexLetters
    IN IF Len(u) = 11 /\ all_decimal THEN TurkishIdCard
       ELSE IF Len(u) = 10 /\ all_alnum THEN StandardRfidCard
       ELSE IF Len(u) >= 16 /\ all_decimal THEN LongFormatRfidCard
       ELSE IF Len(u) >= 8 /\ all_hex THEN HexadecimalRfidCard
       ELSE UnknownCardType

C3_OrderedChain ==
    Called("_detect_card_type") => ret.result = ChainVariant(arg.value)

\* C4 as stated: a capture becomes a CardInfo if and only if it has at least
\* 8 bytes.
C4_ByteCountDecides ==
    pc = "accept" => (card_info # None <=> Len(data.bytes) >= 8)

\* C4: a capture is discarded if and only if the text left of it after
\* decoding, stripping and removing CR, LF and NUL has fewer than 8
\* characters; every capture of 7 or fewer bytes is discarded, and every
\* other capture is given to the CardInfo constructor.
C4_CleanedTextDecides ==
    /\ pc = "accept" =>
          /\ card_info = None <=> Len(CleanedText(data.bytes)) < 8
          /\ Len(data.bytes) <= 7 => card_info = None
          /\ card_info # None =>
                /\ card_info.raw_data = CleanedText(data.bytes)
                /\ card_info.hex_data = hex_dump(data.bytes)
    /\ outcome = "error" => Len(CleanedText(data.bytes)) >= 8

\* C4 witness: a capture of 8 bytes or more has been discarded
C4_LongCaptureDiscarded ==
    pc = "accept" /\ Len(data.bytes) >= 8 /\ card_info = None

\* C5: when monitor_rfid has returned after the loop ended for the duration
\* or for a cancellation, one record has been delivered for every accepted
\* frame, in the order of the frames, and the k-th record carries
\* read_count k.
C5_OneRecordPerFrame ==
    (pc = "done" /\ outcome \in {"duration", "cancel"}) =>
        /\ Len(console) = Len(accepted)
        /\ read_count = Len(console)
        /\ \A k \in 1..Len(console) :
              /\ console[k].read_count = k
              /\ k <= Len(accepted) => console[k].raw_data = accepted[k].raw_data

\* C6: when monitor_rfid has returned after the loop ended for the duration
\* or for a cancellation, two consecutive accepted frames of the same text
\* have both been delivered, with consecutive read counts.
C6_RepeatedFrameDelivered ==
    (/\ pc = "done"
     /\ outcome \in {"duration", "cancel"}
     /\ Len(accepted) >= 2
     /\ accepted[1].raw_data = accepted[2].raw_data) =>
        /\ Len(console) >= 2
        /\ console[1].raw_data = accepted[1].raw_data
        /\ console[2].raw_data = accepted[2].raw_data
        /\ console[2].read_count = console[1].read_count + 1

\* C7: with a duration bound d configured, the loop does not go on into
\* another read from a loop head where the elapsed time is >= d.
C7_EndsAtBound ==
    [][(pc = "check" /\ duration # <<>> /\ now - start_time >= duration[1])
           => pc' # "read"]_vars

\* C8: a record is never left half-produced: when monitor_rfid has returned
\* after a cancellation, every counted read has been delivered and stored.
C8_NoHalfProducedRecord ==
    (pc = "done" /\ outcome = "cancel") =>
        /\ read_count = Len(console)
        /\ read_count > 0 => (last_card_info # None
                              /\ last_card_info.raw_data = console[read_count].raw_data)

\* C9: when connect() has returned False, monitor_rfid has ended: no read was
\* attempted, nothing was delivered, read_count is unchanged, the port was
\* not opened again and is not open.
C9_ConnectFailureEnds ==
    outcome = "connect_failed" =>
        /\ pc = "done"
        /\ ~read_attempted
        /\ console = <<>>
        /\ accepted = <<>>
        /\ read_count = 0
        /\ last_card_info = None
        /\ opens = 0
        /\ closes = 0
        /\ ~IsOpen

\* C9 witness: connect() has returned False
C9_ConnectFailed ==
    outcome = "connect_failed" /\ pc = "done" /\ serial_connection = [is_open |-> FALSE]

\* C10: for a capture whose card is not of the Hexadecimal type, the decimal
\* string of _get_decimal_data is the decimal rendering of the bytes read as
\* one big-endian unsigned integer, of whatever size; so is decimal_data of
\* validate_turkish_id for the ASCII bytes of the ID.
RECURSIVE BigEndian(_)
BigEndian(bs) ==
    IF bs = <<>> THEN BigZero
    ELSE BigMulAdd(BigEndian(SubSeq(bs, 1, Len(bs) - 1)), 256, bs[Len(bs)])

NotHexCardProcessed ==
    /\ Called("process_card_data")
    /\ IsCardInfo(ret.result)
    /\ ret.result.card_type # HexadecimalRfidCard

C10_DecimalIsBigEndian ==
    /\ NotHexCardProcessed => ret.decimal = BigStr(BigEndian(arg.value))
    /\ (NotHexCardProcessed /\ arg.value = IdCardCrLf) =>
          ret.decimal = <<51, 56, 57, 55, 48, 57, 51, 52, 57, 57, 54, 55, 50, 50, 50, 53, 56, 50, 57, 49, 54, 52, 52, 52, 55, 56, 50, 57, 50, 53, 56>>
    /\ (Called("validate_turkish_id") /\ "decimal_data" \in DOMAIN ret.result) =>
          ret.result.decimal_data = BigStr(BigEndian(arg.value))
    /\ (Called("validate_turkish_id") /\ arg.value = <<49, 48, 48, 48, 48, 48, 48, 48, 49, 52, 54>>) =>
          ret.result.decimal_data = <<53, 57, 52, 54, 52, 57, 50, 55, 54, 54, 56, 51, 51, 56, 52, 48, 54, 56, 49, 55, 48, 56, 52, 52, 55, 48>>

\* C10 witness: a decimal string beyond 64 bits, from a capture that begins
\* with a zero byte
C10_WideDecimal ==
    /\ NotHexCardProcessed
    /\ arg.value[1] = 0
    /\ Len(arg.value) >= 9
    /\ Len(ret.decimal) >= 20

\* C11: for every capture whose text is classified Hexadecimal, the decimal
\* string is the decimal rendering of the text read as a base-16 integer,
\* in either case of the letters, and never "Conversion error"; the text
\* "CAB9EAF2" is classified Hexadecimal and yields "3400938738".
RECURSIVE Base16(_)
Base16(s) ==
    IF s = <<>> THEN BigZero
    ELSE BigMulAdd(Base16(SubSeq(s, 1, Len(s) - 1)), 16, HexVal(s[Len(s)]))

HexCardProcessed ==
    /\ Called("process_card_data")
    /\ IsCardInfo(ret.result)
    /\ ret.result.card_type = HexadecimalRfidCard

C11_HexTextDecimal ==
    /\ HexCardProcessed =>
          /\ ret.decimal # ConversionError
          /\ \A i \in 1..Len(ret.result.raw_data) : IsHexDigitChar(ret.result.raw_data[i])
          /\ ret.decimal = BigStr(Base16(ret.result.raw_data))
    /\ (Called("process_card_data") /\ arg.value = HexCard) =>
          /\ HexCardProcessed
          /\ ret.decimal = <<51, 52, 48, 48, 57, 51, 56, 55, 51, 56>>

\* C12: the hex dump of a record built by process_card_data from n bytes has
\* length 3n - 1: two upper-case hexadecimal characters for every byte, in
\* the order of the bytes, with single spaces between; without the spaces it
\* has the even length 2n, and the decimal string is never "Invalid hex
\* format".
CardProcessed == Called("process_card_data") /\ IsCardInfo(ret.result)

C12_HexDumpShape ==
    CardProcessed =>
        LET h == ret.result.hex_data
            n == Len(arg.value)
        IN /\ n >= 1
           /\ Len(h) = 3 * n - 1
           /\ \A k \in 1..n :
                 /\ h[3 * k - 2] \in AsciiDigits \cup UpperHexLetters
                 /\ h[3 * k - 1] \in AsciiDigits \cup UpperHexLetters
                 /\ HexVal(h[3 * k - 2]) * 16 + HexVal(h[3 * k - 1]) = arg.value[k]
                 /\ k < n => h[3 * k] = 32
           /\ Len(SelectSeq(h, LAMBDA c : c # 32)) = 2 * n
           /\ ret.decimal # InvalidHexFormat

\* C12 witness: a record whose capture has a byte below 16 with a letter as
\* its second character (0A)
C12_PaddedByteDumped ==
    /\ CardProcessed
    /\ \E k \in 1..Len(arg.value) :
          /\ arg.value[k] = 10
          /\ ret.result.hex_data[3 * k - 2] = 48
          /\ ret.result.hex_data[3 * k - 1] = 65


\* C13: from any state of the loop in which the device is gone for good, the
\* loop is left in the end, also with no duration and no Ctrl+C
C13_GoneTransportEnds == (transport = "gone" /\ pc \in TryPcs) ~> (pc \notin TryPcs)


\* C14: a read that raises inside read_complete_rfid, chunks read before it or
\* not, gives no frame; monitor_rfid then goes to the sleep of line 599 with
\* no record made, counted, stored or printed and without ending; and every
\* call of read_complete_rfid starts with nothing accumulated
ReadErrors == {"error", "error_after_chunk"}
C14_ReadErrorIsSoft ==
    [][/\ (read_result' \in ReadErrors /\ read_result \notin ReadErrors)
          => /\ data' = None
             /\ pc' = "test"
             /\ UNCHANGED <<read_count, last_card_info, console, accepted, outcome>>
       /\ (read_result \in ReadErrors /\ pc = "test" /\ pc' \notin {"test", "except"})
          => /\ pc' = "sleep"
             /\ UNCHANGED <<card_info, read_count, last_card_info, console,
                            accepted, outcome>>
       /\ (pc = "read" /\ pc' \in {"while", "test"})
          => data' \in {None, Bytes(<<>>)}]_vars
C14_ErrorAfterChunk ==
    /\ read_result = "error_after_chunk"
    /\ pc = "test"
    /\ port_buffer = <<>>
    /\ presented > 0


\* C15: every call of read_complete_rfid returns, whatever the device does, so
\* that the loop head of line 555 is reached again
InReadCall == pc \in {"read", "while", "chunk_sleep"}
C15_ReadReturns == InReadCall ~> ~InReadCall


\* C16: the raw_data of every CardInfo process_card_data builds contains no
\* CR, LF or NUL and neither begins nor ends with a whitespace character
C16_TextIsTrimmed ==
    (Called("process_card_data") /\ IsCardInfo(ret.result))
    => LET t == ret.result.raw_data
       IN /\ \A i \in 1..Len(t) : t[i] \notin {13, 10, 0}
          /\ ~IsSpace(t[1])
          /\ ~IsSpace(t[Len(t)])


\* C17: for every string of 11 decimal digits, validate_turkish_id and
\* CardInfo._parse_turkish_id give the same validity flag and the same two
\* computed and two actual check digits, a leading digit 0 included
C17_SameValidator ==
    (Called("validate_turkish_id") /\ ElevenDecimalDigits(arg.value))
    => LET v == ret.result
           p == _parse_turkish_id(arg.value).turkish_id
       IN /\ v.valid = p.is_valid
          /\ DOMAIN v = {"valid", "full_number", "hex_data", "decimal_data",
                         "check_digit_10", "check_digit_11", "actual_digit_10",
                         "actual_digit_11", "odd_sum", "even_sum", "first_10_sum"}
          /\ v.check_digit_10 = p.check_digit_10
          /\ v.check_digit_11 = p.check_digit_11
          /\ v.actual_digit_10 = p.actual_digit_10
          /\ v.actual_digit_11 = p.actual_digit_11


\* C18: a frame that passes the length filter always gets its record: unless
\* Ctrl+C arrives, line 563 ends with a CardInfo that carries the variant, the
\* text and the hex dump (a checksum mismatch only makes is_valid false), the
\* block printed for it carries read_count and the decimal string (a failed
\* conversion only makes it a sentinel), and the loop goes on
FrameAccepted == data # None /\ Len(CleanedText(data.bytes)) >= 8
C18_RecordNotAborted ==
    [][/\ (pc = "test" /\ FrameAccepted /\ pc' \notin {"test", "except"})
          => /\ pc' = "accept"
             /\ outcome' = outcome
             /\ IsCardInfo(card_info')
             /\ card_info'.raw_data = CleanedText(data.bytes)
             /\ card_info'.hex_data = hex_dump(data.bytes)
             /\ card_info'.card_type \in CardTypes
             /\ card_info'.card_type = TurkishIdCard
                => card_info'.parsed_data.turkish_id.is_valid \in BOOLEAN
       /\ (pc = "print" /\ pc' \notin {"print", "except"})
          => /\ pc' = "sleep"
             /\ outcome' = outcome
             /\ Len(console') = Len(console) + 1
             /\ console'[Len(console')].read_count = read_count
             /\ console'[Len(console')].card_type = card_info.card_type
             /\ console'[Len(console')].raw_data = card_info.raw_data
             /\ console'[Len(console')].hex_data = card_info.hex_data
             /\ console'[Len(console')].decimal # <<>>]_vars

=============================================================================
